---- MODULE Spec2Model ----
(***************************************************************************)
(* Model of adb_mcp_server/server.py: the UI hierarchy queries             *)
(* (get_clickable_elements, find_element_by_text, find_element_by_id,      *)
(* get_all_text_on_screen), the gestures tap and swipe, tap_element,       *)
(* scroll_to_text, get_screen_specs and get_density_bucket, over an adb    *)
(* transport that can fail.                                                *)
(*                                                                         *)
(* A text returned by adb is modelled by what the regular expressions of   *)
(* server.py can see in it: the sequence of its <node ...> markers, each a *)
(* finite map from attribute name to attribute value (attribute names are *)
(* unique within a marker, as in the XML uiautomator writes).  Character   *)
(* strings that are searched or compared are sequences of one-character    *)
(* strings.                                                                *)
(***************************************************************************)
EXTENDS Integers, Sequences, FiniteSets, TLC

VARIABLES
    screen,     \* device: the view hierarchy now on screen (sequence of nodes)
    file,       \* device: /sdcard/ui_dump.xml
    pc,         \* position of the running tool call
    call,       \* the tool call: its name and arguments
    i,          \* scroll_to_text: the loop variable
    xml,        \* the text get_ui_hierarchy returned, while it is in use
    elements,   \* the list the last search returned
    element,    \* tap_element: the candidate
    specs,      \* scroll_down: the dict get_screen_specs returned
    result,     \* the value the call returned
    acts,       \* history: the adb commands the call has issued, in order
    attempts,   \* history: searches (find_element_by_text calls) completed
    hits,       \* history: searches that returned a non-empty list
    acqFailed,  \* history: an adb command of a hierarchy capture has failed
    consulted,  \* history: the finders the call has run
    cancelled,  \* environment: a cancellation signal has been raised
    lastProc,   \* history: how the last gesture command (input ...) ended
    outputs,    \* get_screen_specs: size_output and density_output
    other       \* a second get_ui_hierarchy running against the same device

vars == <<screen, file, pc, call, i, xml, elements, element, specs, result,
          acts, attempts, hits, acqFailed, consulted, cancelled, lastProc,
          outputs, other>>

vars_but_other ==
    <<screen, file, pc, call, i, xml, elements, element, specs, result,
      acts, attempts, hits, acqFailed, consulted, cancelled, lastProc,
      outputs>>

\* What only tap_element and scroll_to_text read or write.
planner ==
    <<i, elements, element, specs, attempts, hits, consulted, cancelled>>

(***************************************************************************)
(* Bounds of the model.                                                    *)
(***************************************************************************)
MaxNodes == 2       \* nodes in a dump
MaxScrolls == 3     \* largest max_scrolls argument tried
MaxDpi == 500       \* largest dpi get_density_bucket is tried with
MaxFairScrolls == 2 \* largest max_scrolls tried where termination is checked

(***************************************************************************)
(* Python values.                                                          *)
(***************************************************************************)
\* None where a str is expected: a one-token sequence that is no character
\* string.
None == <<"None">>

\* None where a dict is expected: a record that is no dict of the tools.
NoDict == [None |-> TRUE]

\* The empty dict {} (also: an absent attribute, when building a node).
EmptyDict == <<>>

\* bool(x) of a str-or-None argument: None and "" are falsy.
Truthy(x) == x # None /\ x # <<>>

\* elements[0] of a list that is not empty.
Last(list) == list[Len(list)]

First(list) == list[1]

\* str.lower() on the model's alphabet, character by character.
LowerChar(c) == IF c = "S" THEN "s" ELSE IF c = "U" THEN "u" ELSE c

Lower(s) == [k \in 1..Len(s) |-> LowerChar(s[k])]

\* `needle in hay` for two str.
ContainsIgnoringCase(needle, hay) ==
    \E k \in 0..(Len(hay) - Len(needle)) :
        Lower(SubSeq(hay, k + 1, k + Len(needle))) = Lower(needle)

Contains(needle, hay) ==
    \E k \in 0..(Len(hay) - Len(needle)) :
        SubSeq(hay, k + 1, k + Len(needle)) = needle

(***************************************************************************)
(* Texts and regular expressions.                                          *)
(***************************************************************************)
\* A text adb printed on stdout: its node markers.
StdoutText(nodes) == [nodes |-> nodes, error |-> FALSE, msg |-> ""]

\* An "Error: ..." string made by run_adb: it holds no node marker.
ErrorText(msg) == [nodes |-> <<>>, error |-> TRUE, msg |-> msg]

\* re.finditer(r'<node[^>]*>', xml): the markers, left to right.
FindNodesBackwards(text) ==
    [k \in 1..Len(text.nodes) |-> text.nodes[Len(text.nodes) + 1 - k]]

FindNodes(text) == text.nodes

\* What may precede an attribute name inside a longer attribute name of a
\* uiautomator dump: a pattern name="..." is not anchored on the left, so it
\* also matches at the end of such a longer name (long-clickable).
KeyPrefixes == {"", "long-"}

KeyMatches(key, name) == \E p \in KeyPrefixes : key = p \o name

\* re.search(r'name="([^"]*)"', node) is not None, for the names no other
\* attribute name of the dump ends with.
HasAttr(node, name) == name \in DOMAIN node

\* The pattern r'<node[^>]*clickable="true"[^>]*>' on one marker.
ClickablePattern(node) ==
    \E key \in DOMAIN node : KeyMatches(key, "clickable") /\ node[key] = "true"

\* re.search(r'bounds="\[(\d+),(\d+)\]\[(\d+),(\d+)\]"', node) is not None:
\* the value is [a,b][c,d] with four digit strings (no sign).  A bounds value
\* is modelled by the integers written in it.
BoundsMatchSigned(node) ==
    /\ "bounds" \in DOMAIN node
    /\ Len(node["bounds"]) = 4

BoundsMatch(node) ==
    /\ "bounds" \in DOMAIN node
    /\ Len(node["bounds"]) = 4
    /\ \A k \in 1..4 : node["bounds"][k] >= 0

\* The dict entries the three query tools derive from a matched bounds value.
BoundsOf(node) ==
    LET b == node["bounds"]
    IN [x1 |-> b[1], y1 |-> b[2], x2 |-> b[3], y2 |-> b[4]]

CenterOfRoundedUp(node) ==
    LET b == node["bounds"]
    IN [x |-> (b[1] + b[3] + 1) \div 2, y |-> (b[2] + b[4] + 1) \div 2]

CenterOf(node) ==
    LET b == node["bounds"]
    IN [x |-> (b[1] + b[3]) \div 2, y |-> (b[2] + b[4]) \div 2]

SizeOf(node) ==
    LET b == node["bounds"]
    IN [width |-> b[3] - b[1], height |-> b[4] - b[2]]

\* element[outKey] = value of attribute name, when the attribute is there.
Entry(node, name, outKey) ==
    IF HasAttr(node, name) THEN outKey :> node[name] ELSE EmptyDict

(***************************************************************************)
(* get_clickable_elements, lines 265-307.                                  *)
(***************************************************************************)
ClickableElement(node) ==
    Entry(node, "text", "text")
    @@ Entry(node, "content-desc", "content_desc")
    @@ Entry(node, "resource-id", "resource_id")
    @@ (IF BoundsMatch(node)
        THEN [bounds |-> BoundsOf(node), center |-> CenterOf(node),
              size |-> SizeOf(node)]
        ELSE EmptyDict)
    @@ Entry(node, "class", "class")

RECURSIVE ClickableLoop(_, _)
ClickableLoop(nodes, acc) ==
    IF nodes = <<>> THEN acc
    ELSE LET node == Head(nodes)
             elem == ClickableElement(node)
         IN ClickableLoop(Tail(nodes),
                IF ClickablePattern(node) /\ elem # EmptyDict
                THEN Append(acc, elem) ELSE acc)

GetClickableElementsOf(text) == ClickableLoop(FindNodes(text), <<>>)

(***************************************************************************)
(* find_element_by_text, lines 320-351.                                    *)
(***************************************************************************)
FoundText(node) == IF HasAttr(node, "text") THEN node["text"] ELSE <<>>

FoundDesc(node) ==
    IF HasAttr(node, "content-desc") THEN node["content-desc"] ELSE <<>>

TextMatchesAnd(node, text, partial_match) ==
    IF partial_match
    THEN Contains(Lower(text), Lower(FoundText(node)))
         /\ Contains(Lower(text), Lower(FoundDesc(node)))
    ELSE text = FoundText(node) /\ text = FoundDesc(node)

TextMatches(node, text, partial_match) ==
    IF partial_match
    THEN Contains(Lower(text), Lower(FoundText(node)))
         \/ Contains(Lower(text), Lower(FoundDesc(node)))
    ELSE text = FoundText(node) \/ text = FoundDesc(node)

TextElement(node) ==
    [text |-> FoundText(node), content_desc |-> FoundDesc(node)]
    @@ (IF BoundsMatch(node)
        THEN [bounds |-> BoundsOf(node), center |-> CenterOf(node)]
        ELSE EmptyDict)

RECURSIVE TextLoop(_, _, _, _)
TextLoop(nodes, text, partial_match, acc) ==
    IF nodes = <<>> THEN acc
    ELSE LET node == Head(nodes)
         IN TextLoop(Tail(nodes), text, partial_match,
                IF TextMatches(node, text, partial_match)
                THEN Append(acc, TextElement(node)) ELSE acc)

FindElementByTextOf(text, query, partial_match) ==
    TextLoop(FindNodes(text), query, partial_match, <<>>)

(***************************************************************************)
(* find_element_by_id, lines 363-386.                                      *)
(***************************************************************************)
IdElement(node) ==
    [resource_id |-> node["resource-id"]]
    @@ Entry(node, "text", "text")
    @@ (IF BoundsMatch(node)
        THEN [bounds |-> BoundsOf(node), center |-> CenterOf(node)]
        ELSE EmptyDict)

RECURSIVE IdLoop(_, _)
IdLoop(nodes, resource_id) ==
    IF nodes = <<>> THEN NoDict
    ELSE LET node == Head(nodes)
         IN IF HasAttr(node, "resource-id")
               /\ Contains(resource_id, node["resource-id"])
            THEN IdElement(node)
            ELSE IdLoop(Tail(nodes), resource_id)

FindElementByIdOf(text, resource_id) == IdLoop(FindNodes(text), resource_id)

(***************************************************************************)
(* get_all_text_on_screen, lines 1185-1208.                                *)
(***************************************************************************)
\* str.strip(): leading and trailing white space removed.
RECURSIVE LStrip(_)
LStrip(s) == IF s # <<>> /\ Head(s) = " " THEN LStrip(Tail(s)) ELSE s

RECURSIVE RStrip(_)
RStrip(s) ==
    IF s # <<>> /\ Last(s) = " " THEN RStrip(SubSeq(s, 1, Len(s) - 1)) ELSE s

Strip(s) == RStrip(LStrip(s))

\* s.split('.')[-1]: what follows the last dot, or all of s without a dot.
RECURSIVE LastSegment(_)
LastSegment(s) ==
    IF s = <<>> THEN <<>>
    ELSE IF Last(s) = "." THEN <<>>
    ELSE Append(LastSegment(SubSeq(s, 1, Len(s) - 1)), Last(s))

\* Line 1191: `text_match and text_match.group(1).strip()`.
HasVisibleTextUnstripped(node) == HasAttr(node, "text") /\ node["text"] # <<>>

HasVisibleText(node) == HasAttr(node, "text") /\ Strip(node["text"]) # <<>>

TextInfo(node) ==
    [text |-> node["text"]]
    @@ (IF BoundsMatch(node)
        THEN [bounds |-> BoundsOf(node), position |-> CenterOf(node)]
        ELSE EmptyDict)
    @@ (IF HasAttr(node, "class")
        THEN [element_type |-> LastSegment(node["class"])]
        ELSE EmptyDict)

RECURSIVE AllTextLoop(_, _)
AllTextLoop(nodes, texts) ==
    IF nodes = <<>> THEN texts
    ELSE LET node == Head(nodes)
         IN AllTextLoop(Tail(nodes),
                IF HasVisibleText(node)
                THEN Append(texts, TextInfo(node)) ELSE texts)

GetAllTextOnScreenOf(text) == AllTextLoop(FindNodes(text), <<>>)

(***************************************************************************)
(* run_adb, lines 24-39, and the device behind it.                         *)
(***************************************************************************)
\* What can go wrong with one adb command: nothing; a non-zero exit status
\* with a message on stderr; a non-zero exit status with nothing on stderr;
\* subprocess.TimeoutExpired; any other exception (adb not installed).
Faults == {"none", "status", "quiet", "timeout", "raise"}

Completed(returncode, stdout, stderr) ==
    [returncode |-> returncode, stdout |-> stdout, stderr |-> stderr,
     kind |-> "completed"]

\* subprocess.run(cmd, ...) for a command that would complete as `normal`.
Subprocess(fault, normal) ==
    CASE fault = "none" -> normal
      [] fault = "status" -> Completed(1, StdoutText(<<>>), "failed")
      [] fault = "quiet" -> Completed(1, StdoutText(<<>>), "")
      [] fault = "timeout" -> [kind |-> "TimeoutExpired"]
      [] fault = "raise" -> [kind |-> "Exception"]

RunAdb(proc) ==
    IF proc.kind = "TimeoutExpired" THEN ErrorText("Command timed out")
    ELSE IF proc.kind = "Exception" THEN ErrorText("exception")
    ELSE IF proc.returncode # 0 /\ proc.stderr # ""
         THEN ErrorText(proc.stderr)
         ELSE proc.stdout

\* /sdcard/ui_dump.xml
NoFile == [nodes |-> <<>>, exists |-> FALSE]

\* adb shell uiautomator dump /sdcard/ui_dump.xml (line 253): the file after
\* it.
DumpFile(fault, scr, f) ==
    IF fault = "none" THEN [nodes |-> scr, exists |-> TRUE] ELSE f

\* adb shell cat /sdcard/ui_dump.xml (line 254).
CatProc(fault, f) ==
    Subprocess(fault,
        IF f.exists THEN Completed(0, StdoutText(f.nodes), "")
        ELSE Completed(1, StdoutText(<<>>), "No such file or directory"))

\* adb shell rm /sdcard/ui_dump.xml (line 255): the file after it.
RmFile(fault, f) == IF fault = "none" THEN NoFile ELSE f

(***************************************************************************)
(* State.                                                                  *)
(***************************************************************************)
NoText == StdoutText(<<>>)

NoSpecs == [width_px |-> 0, height_px |-> 0]

\* The second get_ui_hierarchy has not been called: its position, the
\* output of its cat command, and whether one of its commands has failed.
NoOther == [pc |-> "idle", output |-> NoText, failed |-> FALSE]

\* get_screen_specs has run no command yet.
NoOutputs == [size_output |-> NoText, density_output |-> NoText]

\* No gesture command has run yet.
NoProc == [kind |-> "none"]

\* The state before any tool call, the device showing one of `dumps`.
InitWith(dumps) ==
    /\ screen \in dumps
    /\ file = NoFile
    /\ pc = "idle"
    /\ call = [op |-> "none"]
    /\ i = 0
    /\ xml = NoText
    /\ elements = <<>>
    /\ element = NoDict
    /\ specs = NoSpecs
    /\ result = NoDict
    /\ acts = <<>>
    /\ attempts = 0
    /\ hits = 0
    /\ acqFailed = FALSE
    /\ consulted = {}
    /\ cancelled = FALSE
    /\ lastProc = NoProc
    /\ outputs = NoOutputs
    /\ other = NoOther

\* A tool is called: its first statement that blocks is the dump command of
\* get_ui_hierarchy.
Enter(c) ==
    /\ pc = "idle"
    /\ call' = c
    /\ pc' = "dump"
    /\ UNCHANGED <<screen, file, xml, result, acts, acqFailed, planner,
                   lastProc, outputs, other>>

(***************************************************************************)
(* get_ui_hierarchy, lines 253-256: three adb commands, one after another. *)
(***************************************************************************)
AdbDump ==
    /\ pc = "dump"
    /\ \E fault \in Faults :
        /\ file' = DumpFile(fault, screen, file)
        /\ acqFailed' = (acqFailed \/ fault # "none")
    /\ acts' = Append(acts, <<"dump">>)
    /\ pc' = "cat"
    /\ UNCHANGED <<screen, call, xml, result, planner, lastProc, outputs,
                   other>>

AdbCat ==
    /\ pc = "cat"
    /\ \E fault \in Faults :
        /\ xml' = RunAdb(CatProc(fault, file))
        /\ acqFailed' = (acqFailed \/ fault # "none" \/ ~file.exists)
    /\ acts' = Append(acts, <<"cat">>)
    /\ pc' = "rm"
    /\ UNCHANGED <<screen, file, call, result, planner, lastProc, outputs,
                   other>>

AdbRm ==
    /\ pc = "rm"
    /\ \E fault \in Faults :
        /\ file' = RmFile(fault, file)
    /\ acts' = Append(acts, <<"rm">>)
    /\ pc' = "hierarchy"
    /\ UNCHANGED <<screen, call, xml, result, acqFailed, planner, lastProc,
                   outputs, other>>

GetUiHierarchy == AdbDump \/ AdbCat \/ AdbRm

\* The running call is `op` and its get_ui_hierarchy has returned.
Returned(op) == pc = "hierarchy" /\ call.op = op

\* get_ui_hierarchy called as a tool: line 256 returns the output of cat.
CallGetUiHierarchy == Enter([op |-> "get_ui_hierarchy"])

ReturnUiHierarchy ==
    /\ Returned("get_ui_hierarchy")
    /\ result' = xml
    /\ pc' = "done"
    /\ UNCHANGED <<screen, file, call, xml, acts, acqFailed, planner,
                   lastProc, outputs, other>>

(***************************************************************************)
(* A second call of get_ui_hierarchy (another request, or another server   *)
(* process) on the same device.  Lines 253-255 take no lock, so its three  *)
(* commands can fall anywhere between those of the first call; the file    *)
(* /sdcard/ui_dump.xml is the same.                                        *)
(***************************************************************************)
OtherCall ==
    /\ other.pc = "idle"
    /\ other' = [other EXCEPT !.pc = "dump"]
    /\ UNCHANGED vars_but_other

OtherDump ==
    /\ other.pc = "dump"
    /\ \E fault \in Faults :
        /\ file' = DumpFile(fault, screen, file)
        /\ other' = [other EXCEPT !.pc = "cat",
                                  !.failed = @ \/ fault # "none"]
    /\ UNCHANGED <<screen, pc, call, xml, result, acts, acqFailed, planner,
                   lastProc, outputs>>

OtherCat ==
    /\ other.pc = "cat"
    /\ \E fault \in Faults :
        other' = [other EXCEPT !.pc = "rm",
                               !.output = RunAdb(CatProc(fault, file)),
                               !.failed = @ \/ fault # "none"]
    /\ UNCHANGED vars_but_other

OtherRm ==
    /\ other.pc = "rm"
    /\ \E fault \in Faults :
        file' = RmFile(fault, file)
    /\ other' = [other EXCEPT !.pc = "done"]
    /\ UNCHANGED <<screen, pc, call, xml, result, acts, acqFailed, planner,
                   lastProc, outputs>>

OtherGetUiHierarchy == OtherCall \/ OtherDump \/ OtherCat \/ OtherRm

(***************************************************************************)
(* The query tools.                                                        *)
(***************************************************************************)
\* str values of length at most 2 that the searches are tried with.
Queries == {<<>>, <<"s">>, <<"S">>, <<"s", "u">>, <<"u", "s">>}

CallGetClickableElements == Enter([op |-> "get_clickable_elements"])

GetClickableElements ==
    /\ Returned("get_clickable_elements")
    /\ result' = GetClickableElementsOf(xml)
    /\ pc' = "done"
    /\ UNCHANGED <<screen, file, call, xml, acts, acqFailed, planner,
                   lastProc, outputs, other>>

CallFindElementByText ==
    \E text \in Queries, partial_match \in BOOLEAN :
        Enter([text |-> text, partial_match |-> partial_match,
               op |-> "find_element_by_text"])

FindElementByText ==
    /\ Returned("find_element_by_text")
    /\ result' = FindElementByTextOf(xml, call.text, call.partial_match)
    /\ pc' = "done"
    /\ UNCHANGED <<screen, file, call, xml, acts, acqFailed, planner,
                   lastProc, outputs, other>>

CallFindElementById ==
    \E resource_id \in Queries :
        Enter([resource_id |-> resource_id, op |-> "find_element_by_id"])

FindElementById ==
    /\ Returned("find_element_by_id")
    /\ result' = FindElementByIdOf(xml, call.resource_id)
    /\ pc' = "done"
    /\ UNCHANGED <<screen, file, call, xml, acts, acqFailed, planner,
                   lastProc, outputs, other>>

CallGetAllTextOnScreen == Enter([op |-> "get_all_text_on_screen"])

GetAllTextOnScreen ==
    /\ Returned("get_all_text_on_screen")
    /\ result' = GetAllTextOnScreenOf(xml)
    /\ pc' = "done"
    /\ UNCHANGED <<screen, file, call, xml, acts, acqFailed, planner,
                   lastProc, outputs, other>>

(***************************************************************************)
(* Dumps.                                                                  *)
(***************************************************************************)
Opt(name, values) == {EmptyDict} \cup {name :> v : v \in values}

DumpsOf(nodes) == UNION {[1..n -> nodes] : n \in 0..MaxNodes}

\* Nodes that differ in what get_clickable_elements reads.
ClickNodes ==
    {c @@ l @@ t :
        c \in Opt("clickable", {"true", "false"}),
        l \in Opt("long-clickable", {"true"}),
        t \in Opt("text", {<<"s">>})}

\* Nodes that differ in what find_element_by_text reads.
TextNodes ==
    {t @@ d :
        t \in Opt("text", {<<>>, <<"s">>, <<"S", "u">>}),
        d \in Opt("content-desc", {<<"S">>, <<"u", "s">>})}

\* Nodes that differ in what tap_element reads.
TapNodes ==
    {t @@ r @@ b :
        t \in Opt("text", {<<"S", "u">>}),
        r \in Opt("resource-id", {<<"s", "u">>}),
        b \in Opt("bounds", {<<0, 0, 2, 4>>, <<2, 4, 7, 9>>})}

\* Nodes that differ in what find_element_by_id reads.
IdNodes ==
    {r @@ t @@ b :
        r \in Opt("resource-id", {<<"s", "u">>, <<"S", "u">>}),
        t \in Opt("text", {<<"s">>}),
        b \in Opt("bounds", {<<2, 4, 7, 9>>})}

\* Nodes that the three list tools tell apart and select differently.
OrderNodes ==
    {t @@ c :
        t \in Opt("text", {<<"s">>, <<"S", "u">>}),
        c \in Opt("clickable", {"true"})}

\* Clickable nodes whose bounds attribute is absent, written with a sign,
\* cut short, or well-formed.
ParseNodes ==
    {("clickable" :> "true") @@ t @@ r @@ b :
        t \in Opt("text", {<<"s">>}),
        r \in Opt("resource-id", {<<"s", "u">>}),
        b \in Opt("bounds", {<<-1, 0, 2, 4>>, <<0, 0>>, <<2, 4, 7, 9>>})}

\* Nodes every tool selects, by the rectangle written in their bounds:
\* upright, inverted on both axes, empty on x and inverted on y.
GeometryNodes ==
    {("clickable" :> "true") @@ ("resource-id" :> <<"u">>) @@ t @@ b :
        t \in Opt("text", {<<"s">>}),
        b \in Opt("bounds", {<<0, 0, 3, 4>>, <<7, 9, 2, 4>>, <<1, 5, 1, 2>>})}

\* Nodes that differ in what get_all_text_on_screen reads: the text may be
\* empty, blank or start with a blank; the class name may hold a dot.
AllTextNodes ==
    {t @@ c @@ b :
        t \in Opt("text", {<<>>, <<" ">>, <<"s">>, <<" ", "s">>}),
        c \in Opt("class", {<<"a", ".", "b">>, <<"b">>}),
        b \in Opt("bounds", {<<2, 4, 7, 9>>})}

\* Nodes that differ in what scroll_to_text reads: matching "s" with bounds,
\* matching "s" without bounds, not matching.
ScrollNodes ==
    {[text |-> <<"S", "u">>, bounds |-> <<2, 4, 7, 9>>],
     [text |-> <<"s">>],
     [text |-> <<"u">>, bounds |-> <<0, 0, 2, 4>>]}

(***************************************************************************)
(* tap, lines 393-396, and swipe, lines 444-459.                           *)
(***************************************************************************)
\* adb shell input tap/swipe ...: it prints nothing when it succeeds.
InputProc(fault) == Subprocess(fault, Completed(0, NoText, ""))

\* Screen coordinates the gestures are tried with.
Coordinates == {0, 1, 5}

CallTap ==
    /\ pc = "idle"
    /\ \E x, y \in Coordinates : call' = [x |-> x, y |-> y, op |-> "tap"]
    /\ pc' = "input"
    /\ UNCHANGED <<screen, file, xml, result, acts, acqFailed, planner,
                   lastProc, outputs, other>>

CallSwipe ==
    /\ pc = "idle"
    /\ \E start_x, start_y, end_x, end_y \in Coordinates :
        call' = [op |-> "swipe", start_x |-> start_x, start_y |-> start_y,
                 end_x |-> end_x, end_y |-> end_y, duration_ms |-> 300]
    /\ pc' = "input"
    /\ UNCHANGED <<screen, file, xml, result, acts, acqFailed, planner,
                   lastProc, outputs, other>>

\* Line 396, lines 454-459: the command is run and what run_adb made of its
\* outcome is returned.
AdbInput ==
    /\ pc = "input"
    /\ \E fault \in Faults :
        /\ lastProc' = InputProc(fault)
        /\ result' = RunAdb(InputProc(fault))
    /\ acts' = Append(acts,
            IF call.op = "tap" THEN <<"tap", call.x, call.y>>
            ELSE <<"swipe", call.start_x, call.start_y, call.end_x,
                   call.end_y, call.duration_ms>>)
    /\ pc' = "done"
    /\ UNCHANGED <<screen, file, call, xml, acqFailed, planner, outputs,
                   other>>

(***************************************************************************)
(* tap_element, lines 409-423.                                             *)
(***************************************************************************)
\* The arguments tap_element is tried with: None, "" and a search string.
TapTexts == {None, <<>>, <<"s">>}

TapIds == {None, <<>>, <<"u">>}

\* The return value of line 419.
ElementNotFound(text, resource_id) ==
    [msg |-> "Element not found", text |-> text, resource_id |-> resource_id]

\* The return value of line 423.
Tapped(x, y) == [x |-> x, msg |-> "Tapped element at", y |-> y]

\* Which finder lines 411-416 run for the arguments: "text", "id" or "none".
FinderIdFirst(text, resource_id) ==
    IF Truthy(resource_id) THEN "id"
    ELSE IF Truthy(text) THEN "text"
    ELSE "none"

Finder(text, resource_id) ==
    IF Truthy(text) THEN "text"
    ELSE IF Truthy(resource_id) THEN "id"
    ELSE "none"

\* Line 418: `not element or 'center' not in element`.
UnusableAnyDict(e) == e = NoDict \/ e = EmptyDict

Unusable(e) == e = NoDict \/ e = EmptyDict \/ "center" \notin DOMAIN e

\* Lines 409-419 when neither argument is truthy: no finder runs, element
\* stays None and the call returns at line 419.  Otherwise the finder starts
\* with get_ui_hierarchy.
CallTapElement ==
    \E text \in TapTexts, resource_id \in TapIds :
        LET c == [text |-> text, resource_id |-> resource_id,
                  op |-> "tap_element"]
        IN \/ /\ Finder(text, resource_id) # "none"
              /\ Enter(c)
           \/ /\ Finder(text, resource_id) = "none"
              /\ pc = "idle"
              /\ call' = c
              /\ element' = NoDict
              /\ result' = ElementNotFound(text, resource_id)
              /\ pc' = "done"
              /\ UNCHANGED <<screen, file, xml, acts, acqFailed, i, elements,
                             specs, attempts, hits, consulted, cancelled,
                             lastProc, outputs, other>>

\* Lines 411-419 after the finder's get_ui_hierarchy has returned: the rest
\* of the finder, the choice of the candidate and the test of line 418.
TapElementResolve ==
    /\ Returned("tap_element")
    /\ LET finder == Finder(call.text, call.resource_id)
           found == IF finder = "text"
                    THEN FindElementByTextOf(xml, call.text, TRUE)
                    ELSE elements
           e == IF finder = "text"
                THEN (IF found # <<>> THEN First(found) ELSE NoDict)
                ELSE FindElementByIdOf(xml, call.resource_id)
       IN /\ elements' = found
          /\ element' = e
          /\ consulted' = consulted \cup {finder}
          /\ IF Unusable(e)
             THEN /\ result' = ElementNotFound(call.text, call.resource_id)
                  /\ pc' = "done"
             ELSE /\ result' = result
                  /\ pc' = "tap"
    /\ UNCHANGED <<screen, file, call, xml, acts, acqFailed, i, specs,
                   attempts, hits, cancelled, lastProc, outputs, other>>

\* Lines 421-423: the tap command, whose outcome is not looked at.
AdbTap ==
    /\ pc = "tap"
    /\ \E fault \in Faults :
        LET x == element["center"]["x"]
            y == element["center"]["y"]
            out == RunAdb(InputProc(fault))
        IN /\ acts' = Append(acts, <<"tap", x, y>>)
           /\ lastProc' = InputProc(fault)
           /\ result' = Tapped(x, y)
    /\ pc' = "done"
    /\ UNCHANGED <<screen, file, call, xml, acqFailed, planner, outputs,
                   other>>

(***************************************************************************)
(* get_density_bucket, lines 137-144.                                      *)
(***************************************************************************)
GetDensityBucketExclusive(dpi) ==
    IF dpi < 120 THEN "ldpi"
    ELSE IF dpi < 160 THEN "mdpi"
    ELSE IF dpi < 240 THEN "hdpi"
    ELSE IF dpi < 320 THEN "xhdpi"
    ELSE IF dpi < 480 THEN "xxhdpi"
    ELSE "xxxhdpi"

GetDensityBucket(dpi) ==
    IF dpi <= 120 THEN "ldpi"
    ELSE IF dpi <= 160 THEN "mdpi"
    ELSE IF dpi <= 240 THEN "hdpi"
    ELSE IF dpi <= 320 THEN "xhdpi"
    ELSE IF dpi <= 480 THEN "xxhdpi"
    ELSE "xxxhdpi"

\* The int values the function is tried with, negative ones included.
Dpis == -1..MaxDpi

\* A call of the function: it runs no adb command and returns at once.
CallGetDensityBucket ==
    /\ pc = "idle"
    /\ \E dpi \in Dpis :
        /\ call' = [op |-> "get_density_bucket", dpi |-> dpi]
        /\ result' = GetDensityBucket(dpi)
    /\ pc' = "done"
    /\ UNCHANGED <<screen, file, xml, acts, acqFailed, planner, lastProc,
                   outputs, other>>

(***************************************************************************)
(* get_screen_specs, lines 103-120, as far as scroll_down reads it.        *)
(***************************************************************************)
\* A text wm printed: the labelled values a pattern such as
\* r'Physical size: (\d+)x(\d+)' can find in it.
MetricsText(entries) ==
    [nodes |-> <<>>, error |-> FALSE, msg |-> "", entries |-> entries]

\* re.search(label + r': (\d+)...', text) is not None.
HasMetric(text, label) ==
    "entries" \in DOMAIN text /\ label \in DOMAIN text["entries"]

\* Lines 107-114: Override size before Physical size, else 0, 0.
ParseSizePhysicalFirst(size_output) ==
    IF HasMetric(size_output, "Physical size")
    THEN size_output["entries"]["Physical size"]
    ELSE IF HasMetric(size_output, "Override size")
         THEN size_output["entries"]["Override size"]
         ELSE <<0, 0>>

ParseSize(size_output) ==
    IF HasMetric(size_output, "Override size")
    THEN size_output["entries"]["Override size"]
    ELSE IF HasMetric(size_output, "Physical size")
         THEN size_output["entries"]["Physical size"]
         ELSE <<0, 0>>

\* What `wm size` prints on the device of the model.
DeviceWmSize == MetricsText("Physical size" :> <<100, 200>>)

(***************************************************************************)
(* get_screen_specs, lines 103-134, as a tool.                             *)
(***************************************************************************)
\* Lines 117-120.
ParseDensity(density_output) ==
    IF HasMetric(density_output, "Physical density")
    THEN density_output["entries"]["Physical density"]
    ELSE 0

\* A float with one decimal is modelled by its number of tenths.
\* round(n / d, 1) for d > 0, in tenths, given n / d in tenths as the
\* fraction n over d: to the nearest, a tie to the even neighbour.
RoundTenths(n, d) ==
    LET q == n \div d
        r == n % d
    IN IF 2 * r < d THEN q
       ELSE IF 2 * r > d THEN q + 1
       ELSE IF q % 2 = 0 THEN q ELSE q + 1

\* Lines 123-124 and 130-131: round((px / density) * 160, 1) if density
\* else 0, in tenths.
ToDp(px, density) ==
    IF density # 0 THEN RoundTenths(px * 1600, density) ELSE 0

\* Lines 107-134: the dict returned for the two texts.
ScreenSpecs(size_output, density_output) ==
    LET width == ParseSize(size_output)[1]
        height == ParseSize(size_output)[2]
        density == ParseDensity(density_output)
    IN [width_px |-> width,
        height_px |-> height,
        density_dpi |-> density,
        width_dp |-> ToDp(width, density),
        height_dp |-> ToDp(height, density),
        aspect_ratio |-> <<width, height>>,
        density_bucket |-> GetDensityBucket(density)]

\* What `wm size` and `wm density` may print.
SizeTexts ==
    {MetricsText(p @@ o) :
        p \in Opt("Physical size", {<<320, 640>>, <<1080, 1920>>}),
        o \in Opt("Override size", {<<1080, 1920>>, <<720, 1280>>})}

DensityTexts ==
    {MetricsText(p) : p \in Opt("Physical density", {0, 160, 420, 440})}

CallGetScreenSpecs ==
    /\ pc = "idle"
    /\ call' = [op |-> "get_screen_specs"]
    /\ pc' = "size"
    /\ UNCHANGED <<screen, file, xml, result, acts, acqFailed, planner,
                   lastProc, outputs, other>>

\* Line 103.
SpecsWmSize ==
    /\ pc = "size"
    /\ \E fault \in Faults, printed \in SizeTexts :
        outputs' = [outputs EXCEPT !.size_output =
                        RunAdb(Subprocess(fault, Completed(0, printed, "")))]
    /\ acts' = Append(acts, <<"wm size">>)
    /\ pc' = "density"
    /\ UNCHANGED <<screen, file, call, xml, result, acqFailed, planner,
                   lastProc, other>>

\* Line 104, and lines 107-134, which run no command.
SpecsWmDensity ==
    /\ pc = "density"
    /\ \E fault \in Faults, printed \in DensityTexts :
        LET density_output ==
                RunAdb(Subprocess(fault, Completed(0, printed, "")))
        IN /\ outputs' = [outputs EXCEPT !.density_output = density_output]
           /\ result' = ScreenSpecs(outputs.size_output, density_output)
    /\ acts' = Append(acts, <<"wm density">>)
    /\ pc' = "done"
    /\ UNCHANGED <<screen, file, call, xml, acqFailed, planner, lastProc,
                   other>>

(***************************************************************************)
(* scroll_to_text, lines 489-495, with scroll_down, lines 465-469.         *)
(***************************************************************************)
ScrollTexts == {<<"s">>}

\* The return value of line 492; `at` is the center dict or 'unknown'.
Unknown == [unknown |-> TRUE]

FoundAfter(text, scrolls, at) ==
    [msg |-> "Found after scrolls at", text |-> text, scrolls |-> scrolls,
     at |-> at]

\* The return value of line 495.
NotFoundAfter(text, scrolls) ==
    [msg |-> "not found after scrolls", text |-> text, scrolls |-> scrolls]

\* elements[0].get('center', 'unknown')
CenterOrUnknown(e) == IF "center" \in DOMAIN e THEN e["center"] ELSE Unknown

\* `for i in range(max_scrolls)` has a value k to give.
InRangeInclusive(k, max_scrolls) == 0 <= k /\ k <= max_scrolls

InRange(k, max_scrolls) == 0 <= k /\ k < max_scrolls

\* Line 489 at the call: the loop starts with the capture of
\* find_element_by_text, or range(max_scrolls) is empty and line 495 returns.
CallScrollToTextUpTo(most) ==
    \E text \in ScrollTexts, max_scrolls \in -1..most :
        LET c == [text |-> text, op |-> "scroll_to_text",
                  max_scrolls |-> max_scrolls]
        IN \/ /\ InRange(0, max_scrolls)
              /\ Enter(c)
           \/ /\ ~InRange(0, max_scrolls)
              /\ pc = "idle"
              /\ call' = c
              /\ result' = NotFoundAfter(text, max_scrolls)
              /\ pc' = "done"
              /\ UNCHANGED <<screen, file, xml, acts, acqFailed, planner,
                             lastProc, outputs, other>>

CallScrollToText == CallScrollToTextUpTo(MaxScrolls)

\* Lines 490-492 after get_ui_hierarchy has returned: the search, and the
\* return when it found something.
ScrollSearch ==
    /\ Returned("scroll_to_text")
    /\ LET found == FindElementByTextOf(xml, call.text, TRUE)
       IN /\ elements' = found
          /\ hits' = hits + (IF found # <<>> THEN 1 ELSE 0)
          /\ IF found # <<>>
             THEN /\ result' = FoundAfter(call.text, i,
                                          CenterOrUnknown(First(found)))
                  /\ pc' = "done"
                  /\ xml' = xml
             ELSE /\ result' = result
                  /\ pc' = "wm_size"
                  /\ xml' = NoText
    /\ attempts' = attempts + 1
    /\ consulted' = consulted \cup {"text"}
    /\ UNCHANGED <<screen, file, call, acts, acqFailed, i, element, specs,
                   cancelled, lastProc, outputs, other>>

\* Line 103 (called from line 465): wm size.
AdbWmSize ==
    /\ pc = "wm_size"
    /\ \E fault \in Faults :
        LET size_output == RunAdb(Subprocess(fault,
                                Completed(0, DeviceWmSize, "")))
        IN specs' = [width_px |-> ParseSize(size_output)[1],
                     height_px |-> ParseSize(size_output)[2]]
    /\ acts' = Append(acts, <<"wm size">>)
    /\ pc' = "wm_density"
    /\ UNCHANGED <<screen, file, call, xml, result, acqFailed, i, elements,
                   element, attempts, hits, consulted, cancelled, lastProc,
                   outputs, other>>

\* Line 104: wm density; scroll_down reads nothing that depends on it.
AdbWmDensity ==
    /\ pc = "wm_density"
    /\ acts' = Append(acts, <<"wm density">>)
    /\ pc' = "swipe"
    /\ UNCHANGED <<screen, file, call, xml, result, acqFailed, planner,
                   lastProc, outputs, other>>

\* Lines 466-469: the swipe from 70% to 30% of the height at mid width,
\* after which the device may show anything.
AdbSwipe ==
    /\ pc = "swipe"
    /\ LET center_x == specs.width_px \div 2
           start_y == (specs.height_px * 7) \div 10
           end_y == (specs.height_px * 3) \div 10
       IN acts' = Append(acts, <<"swipe", center_x, start_y, center_x, end_y,
                                300>>)
    /\ screen' \in DumpsOf(ScrollNodes)
    /\ specs' = NoSpecs
    /\ pc' = "sleep"
    /\ UNCHANGED <<file, call, xml, result, acqFailed, i, elements, element,
                   attempts, hits, consulted, cancelled, lastProc, outputs,
                   other>>

\* Line 494 and the next turn of line 489, or line 495.
SleepBlocks ==
    /\ pc = "sleep"
    /\ pc' = "sleep"
    /\ UNCHANGED <<screen, file, call, xml, result, acts, acqFailed,
                   planner, lastProc, outputs, other>>

SleepThenScroll ==
    /\ pc = "sleep"
    /\ i' = i + 1
    /\ IF InRange(i + 1, call.max_scrolls)
       THEN /\ pc' = "wm_size"
            /\ result' = result
       ELSE /\ pc' = "done"
            /\ result' = NotFoundAfter(call.text, call.max_scrolls)
    /\ UNCHANGED <<screen, file, call, xml, acts, acqFailed, elements,
                   element, specs, attempts, hits, consulted, cancelled,
                   lastProc, outputs, other>>

Sleep ==
    /\ pc = "sleep"
    /\ i' = i + 1
    /\ IF InRange(i + 1, call.max_scrolls)
       THEN /\ pc' = "dump"
            /\ result' = result
       ELSE /\ pc' = "done"
            /\ result' = NotFoundAfter(call.text, call.max_scrolls)
    /\ UNCHANGED <<screen, file, call, xml, acts, acqFailed, elements,
                   element, specs, attempts, hits, consulted, cancelled,
                   lastProc, outputs, other>>

\* The environment raises a cancellation signal while scroll_to_text runs.
\* No statement of lines 482-495 reads it.
Cancel ==
    /\ call.op = "scroll_to_text"
    /\ pc \notin {"idle", "done"}
    /\ ~cancelled
    /\ cancelled' = TRUE
    /\ UNCHANGED <<screen, file, pc, call, xml, result, acts, acqFailed, i,
                   elements, element, specs, attempts, hits, consulted,
                   lastProc, outputs, other>>

(***************************************************************************)
(* Specifications.                                                         *)
(***************************************************************************)
InitClick == InitWith(DumpsOf(ClickNodes))

NextClick == CallGetClickableElements \/ GetUiHierarchy \/ GetClickableElements

SpecClick == InitClick /\ [][NextClick]_vars

InitText == InitWith(DumpsOf(TextNodes))

NextText == CallFindElementByText \/ GetUiHierarchy \/ FindElementByText

SpecText == InitText /\ [][NextText]_vars

InitId == InitWith(DumpsOf(IdNodes))

NextId == CallFindElementById \/ GetUiHierarchy \/ FindElementById

SpecId == InitId /\ [][NextId]_vars

InitOrder == InitWith(DumpsOf(OrderNodes))

NextLists ==
    \/ CallGetClickableElements \/ CallFindElementByText
    \/ CallGetAllTextOnScreen
    \/ GetUiHierarchy
    \/ GetClickableElements \/ FindElementByText \/ GetAllTextOnScreen

SpecOrder == InitOrder /\ [][NextLists]_vars

InitBucket == InitWith({<<>>})

SpecBucket == InitBucket /\ [][CallGetDensityBucket]_vars

InitParse == InitWith(DumpsOf(ParseNodes))

NextQueries == NextLists \/ CallFindElementById \/ FindElementById

SpecParse == InitParse /\ [][NextQueries]_vars

InitGesture == InitWith({<<>>})

NextGesture == CallTap \/ CallSwipe \/ AdbInput

SpecGesture == InitGesture /\ [][NextGesture]_vars

InitTap == InitWith(DumpsOf(TapNodes))

NextTap == CallTapElement \/ GetUiHierarchy \/ TapElementResolve \/ AdbTap

SpecTap == InitTap /\ [][NextTap]_vars

InitGeometry == InitWith(DumpsOf(GeometryNodes))

NextGeometry == NextQueries \/ CallTapElement \/ TapElementResolve \/ AdbTap

SpecGeometry == InitGeometry /\ [][NextGeometry]_vars

InitAllText == InitWith(DumpsOf(AllTextNodes))

NextAllText ==
    CallGetAllTextOnScreen \/ GetUiHierarchy \/ GetAllTextOnScreen

SpecAllText == InitAllText /\ [][NextAllText]_vars

InitSpecs == InitWith({<<>>})

NextSpecs == CallGetScreenSpecs \/ SpecsWmSize \/ SpecsWmDensity

SpecSpecs == InitSpecs /\ [][NextSpecs]_vars

InitRace == InitWith(DumpsOf(ScrollNodes))

NextRace ==
    \/ CallGetUiHierarchy \/ GetUiHierarchy \/ ReturnUiHierarchy
    \/ OtherGetUiHierarchy

SpecRace == InitRace /\ [][NextRace]_vars

InitScroll == InitWith(DumpsOf(ScrollNodes))

ScrollDown == AdbWmSize \/ AdbWmDensity \/ AdbSwipe

NextScroll ==
    CallScrollToText \/ GetUiHierarchy \/ ScrollSearch \/ ScrollDown \/ Sleep

SpecScroll == InitScroll /\ [][NextScroll]_vars

\* The steps of a scroll_to_text call that has started.  Every adb command
\* returns or times out (subprocess.run with timeout=30, line 32) and the
\* sleep of line 494 ends, so a step that can be taken is taken.
ScrollStep == GetUiHierarchy \/ ScrollSearch \/ ScrollDown \/ Sleep

NextScrollFair == CallScrollToTextUpTo(MaxFairScrolls) \/ ScrollStep

SpecScrollFair == InitScroll /\ [][NextScrollFair]_vars /\ WF_vars(ScrollStep)

NextCancel == NextScroll \/ Cancel

SpecCancel == InitScroll /\ [][NextCancel]_vars

(***************************************************************************)
(* Claims.                                                                 *)
(***************************************************************************)
Finished(op) == pc = "done" /\ call.op = op

\* The elements made by Element(_) of the nodes that satisfy Test(_), in the
\* order of the nodes.
Selected(nodes, Test(_), Element(_)) ==
    LET kept == SelectSeq(nodes, Test)
    IN [k \in 1..Len(kept) |-> Element(kept[k])]

\* The clickable attribute of a node is exactly "true".
IsClickable(node) == "clickable" \in DOMAIN node /\ node["clickable"] = "true"

\* C9: get_clickable_elements returns one record for each node whose
\* clickable attribute is exactly "true", and no record for any other node.
C9_ClickableIffAttributeTrue ==
    Finished("get_clickable_elements") =>
        result = Selected(FindNodes(xml), IsClickable, ClickableElement)

\* Two characters are the same letter, whatever their case.
SameLetter(a, b) == a = b \/ {a, b} \in {{"s", "S"}, {"u", "U"}}

\* query occurs in field at some offset, letter by letter, case ignored.
OccursIgnoringCase(query, field) ==
    \E k \in 0..(Len(field) - Len(query)) :
        \A j \in 1..Len(query) : SameLetter(field[k + j], query[j])

Field(node, name) == IF name \in DOMAIN node THEN node[name] ELSE <<>>

\* The node qualifies for the call in progress: on its text or on its
\* content-desc, an absent attribute counting as the empty string.
Qualifies(node) ==
    \E name \in {"text", "content-desc"} :
        IF call.partial_match
        THEN OccursIgnoringCase(call.text, Field(node, name))
        ELSE Field(node, name) = call.text

\* C10: find_element_by_text returns all and only the nodes that match on
\* text or on content-desc: a case-insensitive substring when partial_match,
\* exact equality otherwise; with no match the result is the empty list.
C10_FindByTextAllAndOnly ==
    Finished("find_element_by_text") =>
        result = Selected(FindNodes(xml), Qualifies, TextElement)

\* Of two nodes, only the second matches "s", by its content-desc "S" alone.
C10_Witness ==
    /\ Finished("find_element_by_text")
    /\ call.partial_match /\ call.text = <<"s">>
    /\ Len(FindNodes(xml)) = 2 /\ Len(result) = 1
    /\ ~Qualifies(FindNodes(xml)[1])
    /\ result[1].text = <<>> /\ result[1].content_desc = <<"S">>

\* The call in progress is tap_element and its candidate has been decided.
TapDecided == call.op = "tap_element" /\ pc \in {"tap", "done"}

\* The bounds attribute has the form [a,b][c,d], four non-negative integers.
HasParseableBounds(node) ==
    /\ "bounds" \in DOMAIN node
    /\ Len(node["bounds"]) = 4
    /\ \A k \in 1..4 : node["bounds"][k] \in Nat

MatchesText(node) ==
    \E name \in {"text", "content-desc"} :
        OccursIgnoringCase(call.text, Field(node, name))

MatchesId(node) ==
    /\ "resource-id" \in DOMAIN node
    /\ \E k \in 0..(Len(node["resource-id"]) - Len(call.resource_id)) :
        \A j \in 1..Len(call.resource_id) :
            node["resource-id"][k + j] = call.resource_id[j]

\* The nodes of the captured dump that the arguments of tap_element select,
\* in document order.
Matching ==
    IF Truthy(call.text) THEN SelectSeq(FindNodes(xml), MatchesText)
    ELSE IF Truthy(call.resource_id) THEN SelectSeq(FindNodes(xml), MatchesId)
    ELSE <<>>

NoTapIssued == \A k \in 1..Len(acts) : acts[k][1] # "tap"

\* C4: tap_element issues no tap command when no element matches or when
\* the selected (first matching) element has no parseable bounds; it then
\* returns 'Element not found'.
C4_NoTapWithoutTarget ==
    (TapDecided /\ (Matching = <<>> \/ ~HasParseableBounds(Matching[1]))) =>
        /\ NoTapIssued
        /\ pc = "done"
        /\ result.msg = "Element not found"

\* The first match has no bounds and a later match has: still no tap.
C4_Witness ==
    /\ Finished("tap_element")
    /\ Len(Matching) = 2
    /\ ~HasParseableBounds(Matching[1]) /\ HasParseableBounds(Matching[2])
    /\ result.msg = "Element not found"

FirstOrNone(list) == IF list # <<>> THEN list[1] ELSE NoDict

\* C5 as stated: whenever a text argument is given (is not None) the
\* candidate is the first partial-match result of find_element_by_text and
\* find_element_by_id is not run; find_element_by_id is run only when no text
\* argument is given and a resource-id argument is given.
C5_TextGivenTakesPrecedence ==
    TapDecided =>
        /\ call.text # None =>
            /\ "id" \notin consulted
            /\ element = FirstOrNone(FindElementByTextOf(xml, call.text, TRUE))
        /\ "id" \in consulted => call.text = None /\ call.resource_id # None

\* C5 as amended: the same with "given" read as "given and not empty".
C5_NonEmptyTextTakesPrecedence ==
    TapDecided =>
        /\ Truthy(call.text) =>
            /\ consulted = {"text"}
            /\ element = FirstOrNone(FindElementByTextOf(xml, call.text, TRUE))
        /\ "id" \in consulted =>
            /\ ~Truthy(call.text) /\ Truthy(call.resource_id)
            /\ consulted = {"id"}
            /\ element = FindElementByIdOf(xml, call.resource_id)

\* Both arguments given, the text search is empty and the resource-id would
\* have found a node with bounds: the call fails without looking at it.
C5_Witness ==
    /\ Finished("tap_element")
    /\ Truthy(call.text) /\ Truthy(call.resource_id)
    /\ element = NoDict
    /\ ~Unusable(FindElementByIdOf(xml, call.resource_id))
    /\ NoTapIssued

\* C6: when tap_element fails because the element it matched has no bounds,
\* its message differs from the message it gives, for the same arguments,
\* when no element matched.
C6_CausesDistinguishable ==
    (Finished("tap_element") /\ Matching # <<>>
        /\ ~HasParseableBounds(Matching[1])) =>
        result # ElementNotFound(call.text, call.resource_id)

Scrolling == call.op = "scroll_to_text"

IsFound(r) == r.msg = "Found after scrolls at"

IsNotFound(r) == r.msg = "not found after scrolls"

\* How many commands named cmd the history holds.
Count(history, cmd) ==
    Cardinality({k \in 1..Len(history) : history[k][1] = cmd})

\* C1: for max_scrolls >= 1, scroll_to_text makes at most max_scrolls
\* dump-and-search attempts; when no search finds the text it ends not-found
\* after exactly max_scrolls attempts.
C1_AtMostMaxAttempts ==
    (Scrolling /\ call.max_scrolls >= 1) =>
        /\ attempts <= call.max_scrolls
        /\ Count(acts, "dump") <= call.max_scrolls
        /\ (pc = "done" /\ hits = 0) =>
            /\ IsNotFound(result)
            /\ attempts = call.max_scrolls
            /\ Count(acts, "dump") = call.max_scrolls

\* Three captures, none failed, none holding the text: not found after 3.
C1_Witness ==
    /\ Finished("scroll_to_text")
    /\ call.max_scrolls = 3 /\ attempts = 3 /\ hits = 0
    /\ ~acqFailed
    /\ IsNotFound(result)

\* C2: once the acquisition of a dump has failed, scroll_to_text only
\* finishes that get_ui_hierarchy call and the search on its output, then
\* ends with an outcome that is neither found nor not-found: no screen
\* metrics query, no swipe and no further dump follow.
C2_TransportErrorEndsRun ==
    (Scrolling /\ acqFailed) =>
        /\ pc \in {"cat", "rm", "hierarchy", "done"}
        /\ pc = "done" => (~IsFound(result) /\ ~IsNotFound(result))

\* The first node of the searched dump that matches the text.
FirstMatch == SelectSeq(FindNodes(xml), MatchesText)[1]

Midpoint(node) ==
    [x |-> (node["bounds"][1] + node["bounds"][3]) \div 2,
     y |-> (node["bounds"][2] + node["bounds"][4]) \div 2]

\* C3 as stated: once a search has returned a non-empty list the call has
\* ended FOUND, reporting the center of the first match in document order
\* and the number of search attempts made, the matching one included.
C3_ReportsPointAndAttempts ==
    (Scrolling /\ hits > 0) =>
        /\ pc = "done" /\ IsFound(result)
        /\ HasParseableBounds(FirstMatch)
        /\ result.at = Midpoint(FirstMatch)
        /\ result.scrolls = attempts

\* C3 as amended: the number reported is the number of scroll gestures
\* issued, one less than the attempts made, and the point is 'unknown' when
\* the first match has no parseable bounds.
C3_ReportsPointAndScrolls ==
    (Scrolling /\ hits > 0) =>
        /\ pc = "done" /\ IsFound(result)
        /\ hits = 1
        /\ result.at = (IF HasParseableBounds(FirstMatch)
                        THEN Midpoint(FirstMatch) ELSE Unknown)
        /\ result.scrolls = attempts - 1
        /\ result.scrolls = Count(acts, "swipe")

\* Found at the third attempt, in a dump with two matches: the first has
\* bounds, the last has none.
C3_Witness ==
    /\ Finished("scroll_to_text")
    /\ hits = 1 /\ attempts = 3
    /\ Len(SelectSeq(FindNodes(xml), MatchesText)) = 2
    /\ HasParseableBounds(FirstMatch)
    /\ ~HasParseableBounds(Last(FindNodes(xml)))
    /\ result.at = Midpoint(FirstMatch)
    /\ result.scrolls = 2

\* C7: with max_scrolls <= 0 scroll_to_text returns an invalid-argument
\* error, not its not-found result, and runs no adb command.
C7_NonPositiveRejected ==
    (Finished("scroll_to_text") /\ call.max_scrolls <= 0) =>
        /\ ~IsNotFound(result)
        /\ acts = <<>>

\* C8: after a cancellation signal scroll_to_text issues no further swipe,
\* and it does not end with its not-found result.  (Read in the code's
\* favour: a match found by the search under way may still be returned.)
C8_CancelStopsScrolling ==
    [][cancelled =>
        /\ Count(acts', "swipe") = Count(acts, "swipe")
        /\ pc' = "done" => ~IsNotFound(result')]_vars

\* The record find_element_by_id makes of a node: its resource-id, its text
\* when it has one, its bounds and their center when the bounds parse.
IdRecordOf(node, r) ==
    /\ r # NoDict
    /\ r.resource_id = node["resource-id"]
    /\ ("text" \in DOMAIN r) = ("text" \in DOMAIN node)
    /\ "text" \in DOMAIN node => r.text = node["text"]
    /\ ("center" \in DOMAIN r) = HasParseableBounds(node)
    /\ ("bounds" \in DOMAIN r) = HasParseableBounds(node)
    /\ HasParseableBounds(node) => r.center = Midpoint(node)

\* C11: find_element_by_id returns the first node in document order whose
\* resource-id attribute contains the query as a case-sensitive substring,
\* and None when no node has such a resource-id; a node without a
\* resource-id attribute is never returned.
C11_FindByIdFirstMatch ==
    Finished("find_element_by_id") =>
        LET matching == SelectSeq(FindNodes(xml), MatchesId)
        IN IF matching = <<>> THEN result = NoDict
           ELSE IdRecordOf(matching[1], result)

\* The first node's resource-id "Su" holds the query "s" only if case is
\* ignored: the second node, "su", is returned.
C11_Witness ==
    /\ Finished("find_element_by_id")
    /\ call.resource_id = <<"s">>
    /\ Len(FindNodes(xml)) = 2
    /\ "resource-id" \in DOMAIN FindNodes(xml)[1]
    /\ FindNodes(xml)[1]["resource-id"] = <<"S", "u">>
    /\ "text" \notin DOMAIN FindNodes(xml)[2]
    /\ result # NoDict
    /\ result.resource_id = <<"s", "u">>
    /\ "text" \notin DOMAIN result

\* The node markers of the captured text, in document order.
Document == xml.nodes

ListTools ==
    {"get_clickable_elements", "find_element_by_text",
     "get_all_text_on_screen"}

\* r is the record the running list tool makes of the node.
IsRecordOf(r, node) ==
    CASE call.op = "get_clickable_elements" -> r = ClickableElement(node)
      [] call.op = "find_element_by_text" -> r = TextElement(node)
      [] call.op = "get_all_text_on_screen" ->
            "text" \in DOMAIN node /\ r = TextInfo(node)

\* list holds the records of some of the nodes, each node at most once, in
\* the order of the nodes.
IsSubsequenceOf(list, nodes) ==
    \E f \in [1..Len(list) -> 1..Len(nodes)] :
        /\ \A j, k \in 1..Len(list) : j < k => f[j] < f[k]
        /\ \A k \in 1..Len(list) : IsRecordOf(list[k], nodes[f[k]])

\* C12: every list-returning query returns its records in the document
\* order of the dump: a subsequence of the node sequence, nothing reordered
\* and no node returned twice.
C12_DocumentOrderKept ==
    (pc = "done" /\ call.op \in ListTools) => IsSubsequenceOf(result, Document)

\* Two different nodes, both returned by get_all_text_on_screen, the first
\* node first.
C12_Witness ==
    /\ Finished("get_all_text_on_screen")
    /\ Len(Document) = 2 /\ Len(result) = 2
    /\ \A k \in 1..2 : "text" \in DOMAIN Document[k]
    /\ Document[1]["text"] # Document[2]["text"]
    /\ result[1].text = Document[1]["text"]
    /\ result[2].text = Document[2]["text"]

\* The buckets, from the coarsest to the finest.
Buckets == <<"ldpi", "mdpi", "hdpi", "xhdpi", "xxhdpi", "xxxhdpi">>

Rank(bucket) == CHOOSE k \in 1..Len(Buckets) : Buckets[k] = bucket

\* The ranges of the boundary table; a dpi in none of them, or in two, has
\* no bucket here.
InRanges(dpi) ==
    {k \in 1..Len(Buckets) :
        \/ k = 1 /\ dpi <= 120
        \/ k = 2 /\ dpi \in 121..160
        \/ k = 3 /\ dpi \in 161..240
        \/ k = 4 /\ dpi \in 241..320
        \/ k = 5 /\ dpi \in 321..480
        \/ k = 6 /\ dpi > 480}

\* C13: get_density_bucket maps every integer dpi to exactly one bucket, by
\* inclusive upper bounds without gap or overlap (<= 120 ldpi, 121..160 mdpi,
\* 161..240 hdpi, 241..320 xhdpi, 321..480 xxhdpi, above xxxhdpi), and the
\* bucket never gets coarser as dpi grows.
C13_BucketTable ==
    Finished("get_density_bucket") =>
        /\ InRanges(call.dpi) = {Rank(result)}
        /\ \A lower \in Dpis :
            lower <= call.dpi => Rank(GetDensityBucket(lower)) <= Rank(result)

\* The upper boundary 160 still belongs to mdpi.
C13_Witness ==
    /\ Finished("get_density_bucket")
    /\ call.dpi = 160
    /\ result = "mdpi"

QueryTools == ListTools \cup {"find_element_by_id"}

\* What a query returns when it has nothing to return.
Nothing == IF call.op = "find_element_by_id" THEN NoDict ELSE <<>>

\* The running query selects the node, whatever its bounds attribute; only
\* get_clickable_elements then leaves out a node nothing was extracted from.
Chosen(node) ==
    CASE call.op = "get_clickable_elements" ->
            /\ IsClickable(node)
            /\ \/ DOMAIN node \cap {"text", "resource-id"} # {}
               \/ HasParseableBounds(node)
      [] call.op = "find_element_by_text" -> Qualifies(node)
      [] call.op = "find_element_by_id" -> MatchesId(node)
      [] call.op = "get_all_text_on_screen" -> Field(node, "text") # <<>>

GeometryKeys == {"bounds", "center", "size", "position"}

\* The record r was extracted from the node: its text is kept, and it holds
\* geometry exactly when the bounds of the node parse.
ParsedFrom(r, node) ==
    /\ "text" \in DOMAIN node => r.text = node["text"]
    /\ IF HasParseableBounds(node)
       THEN "bounds" \in DOMAIN r
       ELSE DOMAIN r \cap GeometryKeys = {}

Gestures == {"tap", "swipe"}

\* The last gesture command ran to its end with a non-zero exit status.
EndedNonZero == lastProc.kind = "completed" /\ lastProc.returncode # 0

\* C15: whenever the adb command of tap or swipe ends with a non-zero exit
\* status, the tool returns an 'Error: ...' value and not the command's
\* standard output.
C15_NonZeroStatusIsFailure ==
    (pc = "done" /\ call.op \in Gestures /\ EndedNonZero) => result.error

\* c is sum / 2 rounded towards minus infinity.
IsFloorHalf(c, sum) == 2 * c <= sum /\ sum < 2 * c + 2

\* c is the center of the rectangle b = (x1, y1, x2, y2).
IsCenter(c, b) ==
    IsFloorHalf(c.x, b[1] + b[3]) /\ IsFloorHalf(c.y, b[2] + b[4])

\* The geometry of record r is that of the node: the four numbers as they
\* are written, the center (named position by get_all_text_on_screen), and
\* the size where the tool reports one.
GeometryFrom(r, node) ==
    HasParseableBounds(node) =>
        LET b == node["bounds"]
        IN /\ r.bounds = [x1 |-> b[1], y1 |-> b[2], x2 |-> b[3], y2 |-> b[4]]
           /\ IF call.op = "get_all_text_on_screen"
              THEN IsCenter(r.position, b)
              ELSE IsCenter(r.center, b)
           /\ call.op = "get_clickable_elements" =>
                r.size = [width |-> b[3] - b[1], height |-> b[4] - b[2]]

\* C16: for every node with parsed bounds (x1,y1,x2,y2) each query reports
\* center = ((x1+x2) div 2, (y1+y2) div 2), rounded down, and size =
\* (x2-x1, y2-y1); inverted bounds are reported as written; tap_element taps
\* exactly at that center of the element it selected.
C16_CenterAndSize ==
    /\ (pc = "done" /\ call.op \in QueryTools) =>
        LET chosen == SelectSeq(Document, Chosen)
        IN IF call.op = "find_element_by_id"
           THEN chosen # <<>> => GeometryFrom(result, chosen[1])
           ELSE /\ Len(result) = Len(chosen)
                /\ \A k \in 1..Len(chosen) : GeometryFrom(result[k], chosen[k])
    /\ (Finished("tap_element") /\ Matching # <<>>
            /\ HasParseableBounds(Matching[1])) =>
        /\ result.msg = "Tapped element at"
        /\ IsCenter(result, Matching[1]["bounds"])
        /\ Count(acts, "tap") = 1
        /\ Last(acts) = <<"tap", result.x, result.y>>

\* The selected element has the inverted bounds [7,9][2,4]: it is tapped at
\* (4, 6).
C16_Witness ==
    /\ Finished("tap_element")
    /\ Matching # <<>>
    /\ "bounds" \in DOMAIN Matching[1]
    /\ Matching[1]["bounds"] = <<7, 9, 2, 4>>
    /\ result = Tapped(4, 6)
    /\ Last(acts) = <<"tap", 4, 6>>

\* seg is what follows the last dot of s (all of s when s has no dot).
IsLastSegment(seg, s) ==
    \E k \in 0..Len(s) :
        /\ seg = SubSeq(s, k + 1, Len(s))
        /\ \A j \in 1..Len(seg) : seg[j] # "."
        /\ k = 0 \/ s[k] = "."

\* r is the entry of the node: the text unchanged, the bounds and their
\* center as position when the bounds parse, the last segment of the class
\* name as element type.
IsEntryOf(r, node) ==
    /\ r.text = node["text"]
    /\ ("bounds" \in DOMAIN r) = HasParseableBounds(node)
    /\ ("position" \in DOMAIN r) = HasParseableBounds(node)
    /\ HasParseableBounds(node) =>
        /\ r.bounds = BoundsOf(node)
        /\ r.position = Midpoint(node)
    /\ ("element_type" \in DOMAIN r) = ("class" \in DOMAIN node)
    /\ "class" \in DOMAIN node => IsLastSegment(r.element_type, node["class"])

\* The result is one entry for each node that satisfies Test(_), in order.
EntriesOfNodes(Test(_)) ==
    LET kept == SelectSeq(Document, Test)
    IN /\ Len(result) = Len(kept)
       /\ \A k \in 1..Len(kept) : IsEntryOf(result[k], kept[k])

HasNonEmptyText(node) == "text" \in DOMAIN node /\ node["text"] # <<>>

HasNonBlankText(node) ==
    /\ "text" \in DOMAIN node
    /\ \E k \in 1..Len(node["text"]) : node["text"][k] # " "

\* C17 as stated: get_all_text_on_screen returns one entry for every node
\* whose text attribute is present and not the empty string, and none for
\* the other nodes; an entry carries the text unchanged, the bounds and the
\* center position when the bounds parse, and the last dot-separated segment
\* of the class name as element type.
C17_EntryIffTextNonEmpty ==
    Finished("get_all_text_on_screen") => EntriesOfNodes(HasNonEmptyText)

\* C17 as amended: the same, for every node whose text holds a character
\* that is not white space.
C17_EntryIffTextNotBlank ==
    Finished("get_all_text_on_screen") => EntriesOfNodes(HasNonBlankText)

\* The first node's text is one blank: it has no entry.  The second node's
\* text " s" is returned unchanged, with the type b of class a.b.
C17_Witness ==
    /\ Finished("get_all_text_on_screen")
    /\ Len(Document) = 2 /\ Len(result) = 1
    /\ HasNonEmptyText(Document[1]) /\ ~HasNonBlankText(Document[1])
    /\ result[1].text = <<" ", "s">>
    /\ "class" \in DOMAIN Document[2]
    /\ Document[2]["class"] = <<"a", ".", "b">>
    /\ result[1].element_type = <<"b">>

\* The numbers a text of wm holds under a label, when it holds the label.
Printed(text, label) == text["entries"][label]

Prints(text, label) ==
    "entries" \in DOMAIN text /\ label \in DOMAIN text["entries"]

\* The pixel dimensions the size output stands for: the override when there
\* is one, else the physical size, else 0 x 0.
PixelsOf(text) ==
    IF Prints(text, "Override size") THEN Printed(text, "Override size")
    ELSE IF Prints(text, "Physical size") THEN Printed(text, "Physical size")
    ELSE <<0, 0>>

DensityOf(text) ==
    IF Prints(text, "Physical density")
    THEN Printed(text, "Physical density")
    ELSE 0

\* tenths / 10 = px / dpi * 160, exactly.
IsDpExactly(tenths, px, dpi) == tenths * dpi = px * 1600

\* tenths / 10 is px / dpi * 160 rounded to one decimal.
IsDpRounded(tenths, px, dpi) ==
    /\ 2 * (tenths * dpi - px * 1600) <= dpi
    /\ 2 * (px * 1600 - tenths * dpi) <= dpi

\* What C18 says of the dict get_screen_specs returned, IsDp(_, _, _) being
\* the relation between a dp value, the pixels and a density above 0.
SpecsAgree(IsDp(_, _, _)) ==
    LET px == PixelsOf(outputs.size_output)
        dpi == DensityOf(outputs.density_output)
    IN /\ result.width_px = px[1] /\ result.height_px = px[2]
       /\ result.density_dpi = dpi
       /\ IF dpi > 0
          THEN /\ IsDp(result.width_dp, px[1], dpi)
               /\ IsDp(result.height_dp, px[2], dpi)
          ELSE result.width_dp = 0 /\ result.height_dp = 0

\* C18 as stated: width_dp and height_dp equal px / dpi * 160 when the
\* parsed density is above 0 and 0 when it is 0 or was not parsed; an
\* 'Override size' takes precedence over 'Physical size'.
C18_DpIsPxOverDpiTimes160 ==
    Finished("get_screen_specs") => SpecsAgree(IsDpExactly)

\* C18 as amended: the dp values are px / dpi * 160 rounded to one decimal.
C18_DpIsRoundedToOneDecimal ==
    Finished("get_screen_specs") => SpecsAgree(IsDpRounded)

\* Override 1080x1920 over physical 320x640 at 440 dpi: 392.7 x 698.2 dp.
C18_Witness ==
    /\ Finished("get_screen_specs")
    /\ Prints(outputs.size_output, "Override size")
    /\ Prints(outputs.size_output, "Physical size")
    /\ Printed(outputs.size_output, "Physical size") = <<320, 640>>
    /\ result.width_px = 1080 /\ result.density_dpi = 440
    /\ result.width_dp = 3927 /\ result.height_dp = 6982

\* The adb commands of one turn of the loop that found nothing: the capture
\* (three commands), then scroll_down (the two metrics queries and the
\* swipe).
Turn == <<"dump", "cat", "rm", "wm size", "wm density", "swipe">>

\* C19: in every run of scroll_to_text the device commands come in the
\* order capture, search, then (only after a search that found nothing) one
\* scroll gesture and the settle wait, then the next capture.  No gesture
\* precedes the first search, and after a search that found a match there is
\* no further capture or gesture.
C19_CaptureSearchScrollWait ==
    Scrolling =>
        /\ \A k \in 1..Len(acts) : acts[k][1] = Turn[((k - 1) % 6) + 1]
        /\ attempts \in {Count(acts, "rm") - 1, Count(acts, "rm")}
        /\ pc = "hierarchy" <=> attempts = Count(acts, "rm") - 1
        /\ Count(acts, "wm size") <= attempts - hits
        /\ Count(acts, "swipe") <= attempts - hits
        /\ i \in {Count(acts, "swipe") - 1, Count(acts, "swipe")}
        /\ pc = "sleep" <=> i = Count(acts, "swipe") - 1
        /\ Count(acts, "dump") <= i + 1
        /\ hits > 0 =>
            /\ pc = "done"
            /\ Last(acts)[1] = "rm"
            /\ Count(acts, "dump") = attempts
            /\ Count(acts, "swipe") = attempts - 1

\* Found at the second search: capture, scroll, capture, and nothing more.
C19_Witness ==
    /\ Finished("scroll_to_text")
    /\ hits = 1 /\ attempts = 2 /\ i = 1
    /\ Len(acts) = 9
    /\ acts[6][1] = "swipe"
    /\ ~acqFailed

\* C20: every run of scroll_to_text terminates: whatever max_scrolls and
\* whatever the device does (any dumps, failing or timing-out commands, a UI
\* that changes after each scroll), the call eventually returns its found or
\* its not-found result, provided each adb command returns or times out.
C20_ScrollToTextTerminates ==
    Scrolling ~> (pc = "done" /\ (IsFound(result) \/ IsNotFound(result)))

\* Two turns in which a capture failed and nothing was found: the call has
\* returned not-found.
C20_Witness ==
    /\ Finished("scroll_to_text")
    /\ call.max_scrolls = 2 /\ i = 2
    /\ acqFailed
    /\ Count(acts, "swipe") = 2
    /\ IsNotFound(result)

\* C21: when two captures run interleaved on one device, a capture whose
\* own dump command succeeded finds the file at its cat command: the other
\* capture has not removed it in between, so no capture returns an error
\* text on account of the other one.
C21_CapturesDoNotDisturb ==
    [][/\ (pc = "cat" /\ pc' = "rm" /\ ~acqFailed) => file.exists
       /\ (other.pc = "cat" /\ other'.pc = "rm" /\ ~other.failed) =>
            file.exists]_vars

\* The last gesture command ran to its end with exit status 0.
EndedZero == lastProc.kind = "completed" /\ lastProc.returncode = 0

\* C22: tap_element returns 'Tapped element at (x, y)' only when the tap
\* command it sent ran to its end with exit status 0; after an error status,
\* a timeout or an exception it does not report a successful tap.
C22_TappedOnlyIfTapSucceeded ==
    (Finished("tap_element") /\ result.msg = "Tapped element at") =>
        EndedZero

====
